---- MODULE Spec2Model ----
(***************************************************************************)
(* Model of the drawing component src/src/App.tsx (paintit).               *)
(*                                                                         *)
(* The component keeps its state in React hooks.  An event handler reads   *)
(* the values its render captured (lines, history, historyStep, tool,      *)
(* color, sizes) and queues updates; a render applies queued updates and   *)
(* gives the handlers fresh values.  Updates queued from a discrete event  *)
(* (mouse down/up, touch start/end, click, key down) are rendered before   *)
(* the next event is delivered.  Updates queued from a continuous event    *)
(* (mouse move, touch move) and from a timer callback are rendered in a    *)
(* later task, so the next event may be handled before that render.        *)
(*                                                                         *)
(* Sequences are 1-based here and 0-based in the source: the source's      *)
(* history[i] is history[i + 1] below, historyStep keeps its source value. *)
(***************************************************************************)
EXTENDS Integers, Sequences, FiniteSets, TLC

\* ----------------------------------------------------------------- bounds
\* User events (begin, move, end, undo, redo, clear) in one session.
MaxEvents == 5
\* The same for the sessions of SpecDeep.
MaxDeepEvents == 6
\* The same for the sessions of SpecStyle, whose user events include the tool,
\* color and size selections.
MaxStyleEvents == 4
\* The same for the sessions of SpecExport, whose user events include the export
\* and copy requests.
MaxExportEvents == 4

\* ------------------------------------------------------ program constants
PREDEFINED_COLORS == <<"#df4b26", "#000000">>
SIZE_OPTIONS == {6, 12}
InitPenSize == 6
InitEraserSize == 12
Tools == {"pen", "eraser"}

\* Pointer positions the stage reports (x, y).
Positions == {<<10, 10>>, <<20, 20>>}

VARIABLES
    tool,          \* useState<Tool>('pen')
    color,         \* useState(PREDEFINED_COLORS[0])
    penSize,       \* useState(6)
    eraserSize,    \* useState(12)
    lines,         \* the rendered value of the `lines` state: what handlers and the Stage read
    linesBase,     \* the `lines` hook's base state, before the queued updates
    linesQueue,    \* the `lines` hook's queue of updates not yet applied to linesBase
    history,       \* useState<DrawingLine[][]>([[]])
    historyStep,   \* useState(0)
    isDrawing,     \* useRef(false)
    showToolbox,   \* useState(true), rendered value
    showPending,   \* a setShowToolbox(true) of a timer callback waiting for its render
    timers,        \* setTimeout callbacks scheduled and not yet run
    unifiedSync,   \* the React build renders continuous updates together with discrete ones
    copies,        \* the uri each handleCopyToClipboard call still awaiting its write holds
    clipboard,     \* the image last written to the clipboard, as <<image>>
    download,      \* the image last downloaded as drawing.png, as <<image>>
    asked,         \* observer: the rendered surface at each pending copy request
    lastEvent,     \* observer: the event handled by the last step
    pts,           \* observer: positions of the gesture in progress, <<>> when interrupted
    open,          \* observer: the last live stroke is the one the latest begin made, not finalized
    clearsInRow,   \* observer: number of clear events handled in a row (saturates at 2)
    pre,           \* observer: what held when the last user event arrived
    eventsLeft     \* user events the session may still deliver

hookVars == <<lines, linesBase, linesQueue>>
styleVars == <<tool, color, penSize, eraserSize>>
toolboxVars == <<showToolbox, showPending, timers>>
exportVars == <<copies, clipboard, download, asked>>
obsVars == <<lastEvent, pts, open, clearsInRow, pre>>
vars == <<tool, color, penSize, eraserSize, lines, linesBase, linesQueue, history,
          historyStep, isDrawing, showToolbox, showPending, timers, unifiedSync,
          copies, clipboard, download, asked,
          lastEvent, pts, open, clearsInRow, pre, eventsLeft>>

\* ---------------------------------------------------------------- helpers
Min(a, b) == IF a < b THEN a ELSE b

\* Array.prototype.slice(from, to) with 0 <= from.
Slice(s, from, to) == SubSeq(s, from + 1, Min(to, Len(s)))

\* Mutant of DrawingLine: a stroke is created without its first position.
DrawingLineNoPoints(t, p, c, s) == [tool |-> t, points |-> <<>>, color |-> c, size |-> s]

\* interface DrawingLine
DrawingLine(t, p, c, s) == [tool |-> t, points |-> p, color |-> c, size |-> s]

\* const currentSize = tool === 'pen' ? penSize : eraserSize
currentSize == IF tool = "pen" THEN penSize ELSE eraserSize

NoLine == DrawingLine("pen", <<>>, "", 0)

\* An update of the `lines` hook: its priority lane and what setLines was given.
Update(lane, op, line, pt, val) ==
    [lane |-> lane, op |-> op, line |-> line, pt |-> pt, val |-> val]

\* setLines((prevLines) => [...prevLines, newLine])
AddLine(lane, newLine) == Update(lane, "add", newLine, <<>>, <<>>)
\* setLines((prevLines) => { ... points: lastLine.points.concat([point.x, point.y]) ... })
MovePoint(lane, point) == Update(lane, "move", NoLine, point, <<>>)
\* setLines(value)
SetLines(lane, value) == Update(lane, "set", NoLine, <<>>, value)

\* Mutant of AppendPoint: the new position is put before the stroke's points.
AppendPointPrepends(prevLines, point) ==
    IF Len(prevLines) = 0
    THEN prevLines
    ELSE LET lastLine == prevLines[Len(prevLines)]
             updatedLine == [lastLine EXCEPT !.points = point \o lastLine.points]
         IN  Slice(prevLines, 0, Len(prevLines) - 1) \o <<updatedLine>>

\* Mutant of AppendPoint: the stroke is rebuilt with the selected tool and color.
AppendPointRestyles(prevLines, point) ==
    IF Len(prevLines) = 0
    THEN prevLines
    ELSE LET lastLine == prevLines[Len(prevLines)]
             updatedLine == [lastLine EXCEPT !.points = lastLine.points \o point,
                                             !.tool = tool, !.color = color]
         IN  Slice(prevLines, 0, Len(prevLines) - 1) \o <<updatedLine>>

\* The updater of handleMouseMove applied to prevLines.
AppendPoint(prevLines, point) ==
    IF Len(prevLines) = 0
    THEN prevLines
    ELSE LET lastLine == prevLines[Len(prevLines)]
             updatedLine == [lastLine EXCEPT !.points = lastLine.points \o point]
         IN  Slice(prevLines, 0, Len(prevLines) - 1) \o <<updatedLine>>

ApplyUpdate(u, prevLines) ==
    CASE u.op = "add" -> prevLines \o <<u.line>>
      [] u.op = "move" -> AppendPoint(prevLines, u.pt)
      [] u.op = "set" -> u.val

\* The lanes a render works on.
SyncLanes == {"sync"}
AllLanes == {"sync", "cont", "default"}
\* The render that follows a discrete event.
DiscreteLanes == IF unifiedSync THEN AllLanes ELSE SyncLanes

\* React's processing of a hook's update queue in a render of the given lanes:
\* an update of another lane is skipped and stays queued, with every update
\* after it; the updates of the rendered lanes are applied in order.
RECURSIVE Reduce(_, _, _, _, _)
Reduce(queue, lanes, newState, newBaseState, newBaseQueue) ==
    IF queue = <<>>
    THEN [state |-> newState,
          baseState |-> IF newBaseQueue = <<>> THEN newState ELSE newBaseState,
          baseQueue |-> newBaseQueue]
    ELSE LET u == Head(queue) IN
         IF u.lane \notin (lanes \cup {"none"})
         THEN Reduce(Tail(queue), lanes, newState,
                     IF newBaseQueue = <<>> THEN newState ELSE newBaseState,
                     Append(newBaseQueue, u))
         ELSE Reduce(Tail(queue), lanes, ApplyUpdate(u, newState), newBaseState,
                     IF newBaseQueue = <<>> THEN newBaseQueue
                     ELSE Append(newBaseQueue, [u EXCEPT !.lane = "none"]))

\* A render of the `lines` hook with the given queue.
RenderLines(queue, lanes) ==
    LET r == Reduce(queue, lanes, linesBase, linesBase, <<>>)
    IN  /\ lines' = r.state
        /\ linesBase' = r.baseState
        /\ linesQueue' = r.baseQueue

\* A render of the showToolbox hook: the timer callback's update is of the default lane.
RenderToolbox(lanes) ==
    IF showPending /\ "default" \in lanes
    THEN showToolbox' = TRUE /\ showPending' = FALSE
    ELSE UNCHANGED <<showToolbox, showPending>>

\* getCurrentStrokes(): the live canvas, every queued update applied.
Canvas == Reduce(linesQueue, AllLanes, linesBase, linesBase, <<>>).state

\* The positions of a stroke (its points are flattened x, y).
NumPoints(line) == Len(line.points) \div 2

canUndo == historyStep > 0
canRedo == historyStep < Len(history) - 1

\* getLineProps(line): what the Stage draws for a stroke.
getLineProps(line) ==
    [points |-> line.points,
     stroke |-> IF line.tool = "pen" THEN line.color ELSE "#000",
     strokeWidth |-> line.size,
     globalCompositeOperation |->
         IF line.tool = "eraser" THEN "destination-out" ELSE "source-over"]

\* stageRef.current.toDataURL(...): the image of the strokes the Stage last rendered.
toDataURL == [j \in DOMAIN lines |-> getLineProps(lines[j])]

\* The sequence s without its element i.
RemoveAt(s, i) == SubSeq(s, 1, i - 1) \o SubSeq(s, i + 1, Len(s))

\* history[i] of the source: the element, or <<"undefined">> past the end.
JsIndex(h, i) == IF i + 1 \in DOMAIN h THEN <<h[i + 1]>> ELSE <<"undefined">>
\* x || []
OrEmpty(x) == IF x = <<"undefined">> THEN <<>> ELSE x[1]

\* Mutant of MoveGuard: the handler does not test isDrawing.current.
MoveGuardAlways == TRUE

\* if (!isDrawing.current) return;
MoveGuard == isDrawing

\* Mutant of CommitHistory: the snapshots after the cursor are kept.
CommitHistoryKeepsRedo(prevHistory, state) == prevHistory \o <<state>>

\* Mutant of CommitHistory: the snapshot at the cursor is replaced (slice one short).
CommitHistoryOverwrites(prevHistory, state) ==
    Slice(prevHistory, 0, historyStep) \o <<state>>

\* (prevHistory) => [...prevHistory.slice(0, historyStep + 1), state]
CommitHistory(prevHistory, state) ==
    Slice(prevHistory, 0, historyStep + 1) \o <<state>>

\* Mutant of UndoGuard: undo does not test the cursor.
UndoGuardAlways == TRUE

\* if (historyStep > 0)
UndoGuard == historyStep > 0
\* Mutant of RedoGuard: redo does not test the cursor.
RedoGuardAlways == TRUE

\* if (historyStep < history.length - 1)
RedoGuard == historyStep < Len(history) - 1

\* ------------------------------------------------------------- observers
\* What a user event leaves in the observers.  `undone` is <<Canvas>> when the
\* event is an undo that takes effect, <<>> otherwise.
Observe(ev, newPts, newOpen, undone) ==
    /\ eventsLeft > 0
    /\ eventsLeft' = eventsLeft - 1
    /\ lastEvent' = ev
    /\ pts' = newPts
    /\ open' = newOpen
    /\ clearsInRow' = IF ev = "clear" THEN Min(clearsInRow + 1, 2) ELSE 0
    /\ pre' = [isDrawing |-> isDrawing, canRedo |-> canRedo,
               clears |-> clearsInRow, undone |-> undone]

\* What a render or a timer callback leaves in the observers.
ObserveInternal(ev) ==
    /\ lastEvent' = ev
    /\ UNCHANGED <<pts, open, clearsInRow, pre, eventsLeft>>

\* The step handles the user event ev.
Handled(ev) == lastEvent' = ev /\ eventsLeft' = eventsLeft - 1

\* --------------------------------------------------------------- actions
InitState(n) ==
    /\ tool = "pen"
    /\ color = PREDEFINED_COLORS[1]
    /\ penSize = InitPenSize
    /\ eraserSize = InitEraserSize
    /\ lines = <<>>
    /\ linesBase = <<>>
    /\ linesQueue = <<>>
    /\ history = << <<>> >>
    /\ historyStep = 0
    /\ isDrawing = FALSE
    /\ showToolbox = TRUE
    /\ showPending = FALSE
    /\ timers = 0
    /\ unifiedSync \in BOOLEAN
    /\ copies = <<>>
    /\ clipboard = <<>>
    /\ download = <<>>
    /\ asked = <<>>
    /\ lastEvent = "init"
    /\ pts = <<>>
    /\ open = FALSE
    /\ clearsInRow = 0
    /\ pre = [isDrawing |-> FALSE, canRedo |-> FALSE, clears |-> 0, undone |-> <<>>]
    /\ eventsLeft = n

Init == InitState(MaxEvents)
InitDeep == InitState(MaxDeepEvents)

\* Mutant of handleMouseDown: the begin event also commits a snapshot.
handleMouseDownCommits(pos) ==
    /\ isDrawing' = TRUE
    /\ showToolbox' = FALSE
    /\ showPending' = FALSE
    /\ LET newLine == DrawingLine(tool, pos, color, currentSize)
       IN  RenderLines(Append(linesQueue, AddLine("sync", newLine)), DiscreteLanes)
    /\ history' = CommitHistory(history, lines)
    /\ historyStep' = historyStep + 1
    /\ UNCHANGED <<styleVars, timers, unifiedSync, exportVars>>
    /\ Observe("begin", pos, TRUE, <<>>)

\* begin: onMouseDown / onTouchStart
handleMouseDown(pos) ==
    /\ isDrawing' = TRUE
    /\ showToolbox' = FALSE
    /\ showPending' = FALSE
    /\ LET newLine == DrawingLine(tool, pos, color, currentSize)
       IN  RenderLines(Append(linesQueue, AddLine("sync", newLine)), DiscreteLanes)
    /\ UNCHANGED <<styleVars, history, historyStep, timers, unifiedSync, exportVars>>
    /\ Observe("begin", pos, TRUE, <<>>)

\* Mutant of handleMouseMove: the position is also pushed onto the last stroke of
\* the snapshot at the cursor (a push in place on an array `lines` shares with it).
handleMouseMoveWritesThrough(point) ==
    /\ IF MoveGuard
       THEN /\ linesQueue' = Append(linesQueue, MovePoint("cont", point))
            /\ history' = [history EXCEPT ![historyStep + 1] = AppendPoint(@, point)]
            /\ UNCHANGED <<lines, linesBase>>
       ELSE UNCHANGED <<hookVars, history>>
    /\ UNCHANGED <<styleVars, historyStep, isDrawing, toolboxVars, unifiedSync, exportVars>>
    /\ Observe("move", IF isDrawing /\ pts # <<>> THEN pts \o point ELSE <<>>, open, <<>>)

\* move: onMousemove / onTouchMove
handleMouseMove(point) ==
    /\ IF MoveGuard
       THEN /\ linesQueue' = Append(linesQueue, MovePoint("cont", point))
            /\ UNCHANGED <<lines, linesBase>>
       ELSE UNCHANGED hookVars
    /\ UNCHANGED <<styleVars, history, historyStep, isDrawing, toolboxVars, unifiedSync, exportVars>>
    /\ Observe("move", IF isDrawing /\ pts # <<>> THEN pts \o point ELSE <<>>, open, <<>>)

\* end: onMouseup / onTouchEnd
handleMouseUp ==
    /\ isDrawing' = FALSE
    /\ timers' = timers + 1
    /\ history' = CommitHistory(history, lines)
    /\ historyStep' = historyStep + 1
    /\ RenderLines(linesQueue, DiscreteLanes)
    /\ RenderToolbox(DiscreteLanes)
    /\ UNCHANGED <<styleVars, unifiedSync, exportVars>>
    /\ Observe("end", IF isDrawing THEN pts ELSE <<>>, FALSE, <<>>)

\* Mutant of handleClearCanvas: clear resets the history log.
handleClearCanvasResets ==
    /\ RenderLines(Append(linesQueue, SetLines("sync", <<>>)), DiscreteLanes)
    /\ history' = << <<>> >>
    /\ historyStep' = 0
    /\ RenderToolbox(DiscreteLanes)
    /\ UNCHANGED <<styleVars, isDrawing, timers, unifiedSync, exportVars>>
    /\ Observe("clear", <<>>, FALSE, <<>>)

handleClearCanvas ==
    /\ RenderLines(Append(linesQueue, SetLines("sync", <<>>)), DiscreteLanes)
    /\ history' = CommitHistory(history, <<>>)
    /\ historyStep' = historyStep + 1
    /\ RenderToolbox(DiscreteLanes)
    /\ UNCHANGED <<styleVars, isDrawing, timers, unifiedSync, exportVars>>
    /\ Observe("clear", <<>>, FALSE, <<>>)

\* Mutant of handleUndo: the canvas is set to the snapshot at the old cursor.
handleUndoOffByOne ==
    /\ IF UndoGuard
       THEN /\ historyStep' = historyStep - 1
            /\ RenderLines(Append(linesQueue,
                   SetLines("sync", OrEmpty(JsIndex(history, historyStep)))),
                   DiscreteLanes)
            /\ RenderToolbox(DiscreteLanes)
            /\ Observe("undo", <<>>, FALSE, <<Canvas>>)
       ELSE /\ UNCHANGED <<historyStep, hookVars, showToolbox, showPending>>
            /\ Observe("undo", <<>>, open, <<>>)
    /\ UNCHANGED <<styleVars, history, isDrawing, timers, unifiedSync, exportVars>>

handleUndo ==
    /\ IF UndoGuard
       THEN /\ historyStep' = historyStep - 1
            /\ RenderLines(Append(linesQueue,
                   SetLines("sync", OrEmpty(JsIndex(history, historyStep - 1)))),
                   DiscreteLanes)
            /\ RenderToolbox(DiscreteLanes)
            /\ Observe("undo", <<>>, FALSE, <<Canvas>>)
       ELSE /\ UNCHANGED <<historyStep, hookVars, showToolbox, showPending>>
            /\ Observe("undo", <<>>, open, <<>>)
    /\ UNCHANGED <<styleVars, history, isDrawing, timers, unifiedSync, exportVars>>

handleRedo ==
    /\ IF RedoGuard
       THEN /\ historyStep' = historyStep + 1
            /\ RenderLines(Append(linesQueue,
                   SetLines("sync", JsIndex(history, historyStep + 1)[1])),
                   DiscreteLanes)
            /\ RenderToolbox(DiscreteLanes)
            /\ Observe("redo", <<>>, FALSE, <<>>)
       ELSE /\ UNCHANGED <<historyStep, hookVars, showToolbox, showPending>>
            /\ Observe("redo", <<>>, open, <<>>)
    /\ UNCHANGED <<styleVars, history, isDrawing, timers, unifiedSync, exportVars>>

\* The render React scheduled for the continuous and timer updates.
Render ==
    /\ linesQueue # <<>> \/ showPending
    /\ RenderLines(linesQueue, AllLanes)
    /\ RenderToolbox(AllLanes)
    /\ UNCHANGED <<styleVars, history, historyStep, isDrawing, timers, unifiedSync, exportVars>>
    /\ ObserveInternal("render")

\* setTimeout(() => setShowToolbox(true), 200)
TimerFire ==
    /\ timers > 0
    /\ timers' = timers - 1
    /\ showPending' = (showPending \/ ~showToolbox)
    /\ UNCHANGED <<styleVars, hookVars, history, historyStep, isDrawing, showToolbox,
                   unifiedSync, exportVars>>
    /\ ObserveInternal("timer")

Next ==
    \/ \E pos \in Positions : handleMouseDown(pos)
    \/ \E point \in Positions : handleMouseMove(point)
    \/ handleMouseUp
    \/ handleClearCanvas
    \/ handleUndo
    \/ handleRedo
    \/ Render
    \/ TimerFire

\* Sessions of at most MaxEvents user events.
Spec == Init /\ [][Next]_vars
\* Sessions of at most MaxDeepEvents user events.
SpecDeep == InitDeep /\ [][Next]_vars

\* ------------------------------------------------- tool, color and size
\* What a click on a selection leaves besides the selection: the render of the
\* discrete event.
SelectionRender ==
    /\ RenderLines(linesQueue, DiscreteLanes)
    /\ RenderToolbox(DiscreteLanes)
    /\ UNCHANGED <<history, historyStep, isDrawing, timers, unifiedSync, exportVars>>
    /\ Observe("style", <<>>, open, <<>>)

\* setTool(selectedTool)
handleToolClick(selectedTool) ==
    /\ tool' = selectedTool
    /\ UNCHANGED <<color, penSize, eraserSize>>
    /\ SelectionRender

\* onClick={() => setColor(colorOption)}
setColor(value) ==
    /\ color' = value
    /\ UNCHANGED <<tool, penSize, eraserSize>>
    /\ SelectionRender

\* const setCurrentSize = tool === 'pen' ? setPenSize : setEraserSize
setCurrentSize(option) ==
    /\ IF tool = "pen"
       THEN penSize' = option /\ UNCHANGED eraserSize
       ELSE eraserSize' = option /\ UNCHANGED penSize
    /\ UNCHANGED <<tool, color>>
    /\ SelectionRender

InitStyle == InitState(MaxStyleEvents)

NextStyle ==
    \/ Next
    \/ \E selectedTool \in Tools : handleToolClick(selectedTool)
    \/ \E i \in DOMAIN PREDEFINED_COLORS : setColor(PREDEFINED_COLORS[i])
    \/ \E option \in SIZE_OPTIONS : setCurrentSize(option)

\* Sessions of at most MaxStyleEvents user events, selections among them.
SpecStyle == InitStyle /\ [][NextStyle]_vars

\* ------------------------------------------------------ export and copy
\* if (stageRef.current): the Stage is mounted for the whole session.
StageMounted == TRUE

\* handleExportPNG: the uri is taken and handed to the download link at once.
handleExportPNG ==
    /\ IF StageMounted THEN download' = <<toDataURL>> ELSE UNCHANGED download
    /\ UNCHANGED <<styleVars, hookVars, history, historyStep, isDrawing, toolboxVars,
                   unifiedSync, copies, clipboard, asked>>
    /\ Observe("export", <<>>, open, <<>>)

\* handleCopyToClipboard up to its first await: the uri is taken.
handleCopyToClipboard ==
    /\ IF StageMounted
       THEN copies' = Append(copies, toDataURL) /\ asked' = Append(asked, toDataURL)
       ELSE UNCHANGED <<copies, asked>>
    /\ UNCHANGED <<styleVars, hookVars, history, historyStep, isDrawing, toolboxVars,
                   unifiedSync, clipboard, download>>
    /\ Observe("copy", <<>>, open, <<>>)

\* Mutant of ClipboardWrite: the image is taken from the Stage when the write is made.
ClipboardWriteLate(i) ==
    /\ i \in DOMAIN copies
    /\ clipboard' = <<toDataURL>>
    /\ copies' = RemoveAt(copies, i)
    /\ asked' = RemoveAt(asked, i)
    /\ UNCHANGED <<styleVars, hookVars, history, historyStep, isDrawing, toolboxVars,
                   unifiedSync, download>>
    /\ ObserveInternal("write")

\* await fetch(uri); await response.blob(); await navigator.clipboard.write(...)
ClipboardWrite(i) ==
    /\ i \in DOMAIN copies
    /\ clipboard' = <<copies[i]>>
    /\ copies' = RemoveAt(copies, i)
    /\ asked' = RemoveAt(asked, i)
    /\ UNCHANGED <<styleVars, hookVars, history, historyStep, isDrawing, toolboxVars,
                   unifiedSync, download>>
    /\ ObserveInternal("write")

\* catch (error) { console.error(...) }
ClipboardFail(i) ==
    /\ i \in DOMAIN copies
    /\ copies' = RemoveAt(copies, i)
    /\ asked' = RemoveAt(asked, i)
    /\ UNCHANGED <<styleVars, hookVars, history, historyStep, isDrawing, toolboxVars,
                   unifiedSync, clipboard, download>>
    /\ ObserveInternal("fail")

InitExport == InitState(MaxExportEvents)

NextExport ==
    \/ Next
    \/ handleExportPNG
    \/ handleCopyToClipboard
    \/ \E i \in DOMAIN copies : ClipboardWrite(i)
    \/ \E i \in DOMAIN copies : ClipboardFail(i)

\* Sessions of at most MaxExportEvents user events, export and copy among them.
SpecExport == InitExport /\ [][NextExport]_vars

\* ---------------------------------------------------------------- claims
\* The last snapshot of a history log.
Last(h) == h[Len(h)]

\* C1: in every reachable state the history cursor is an index of the history
\* log: 0 <= historyStep < history.length.
C1_CursorInRange == 0 <= historyStep /\ historyStep < Len(history)

\* An undo brought the cursor back to 0 with a redo branch above it.
C1_Witness == lastEvent = "undo" /\ pre.undone # <<>> /\ historyStep = 0 /\ Len(history) > 1

\* C2: a commit (an end event or a clear) done with history H and cursor c leaves
\* H[0..c] followed by one new snapshot (empty for clear), the cursor on c + 1, the
\* last index, and nothing to redo.
C2_CommitTruncates ==
    [][(Handled("end") \/ Handled("clear")) =>
          /\ Len(history') = historyStep + 2
          /\ SubSeq(history', 1, historyStep + 1) = SubSeq(history, 1, historyStep + 1)
          /\ historyStep' = historyStep + 1
          /\ historyStep' = Len(history') - 1
          /\ ~canRedo'
          /\ (Handled("clear") => Last(history') = <<>>)]_vars

\* A commit was done while there was a snapshot to redo.
C2_Witness == lastEvent \in {"end", "clear"} /\ pre.canRedo /\ ~canRedo

\* C3: an undo that takes effect, followed immediately by a redo, restores the
\* live canvas that existed before the undo.
C3_UndoRedoRestores ==
    [][(lastEvent = "undo" /\ pre.undone # <<>> /\ Handled("redo")) =>
          Canvas' = pre.undone[1]]_vars

\* C4: the end event commits, as the new snapshot, the live canvas at the moment
\* of the event, with every point the preceding move events appended.
C4_EndCommitsLiveCanvas ==
    [][Handled("end") => Last(history') = Canvas]_vars

\* C5: an end event received while Idle changes neither the live canvas nor the
\* history log nor the cursor.
C5_EndWhileIdleNoOp ==
    [][(Handled("end") /\ ~isDrawing) =>
          (Canvas' = Canvas /\ history' = history /\ historyStep' = historyStep)]_vars

\* C6: a begin event received while Capturing adds no stroke to the live canvas
\* and does not change the stroke being captured.
C6_BeginWhileCapturingIgnored ==
    [][(Handled("begin") /\ isDrawing) => Canvas' = Canvas]_vars

\* C7: a move event changes no stroke of the live canvas but the last one, and
\* that one only while it is the stroke the most recent begin created and no end,
\* undo, redo or clear has finalized or replaced it.
C7_MoveOnlyOpenStroke ==
    [][Handled("move") =>
          /\ Len(Canvas') = Len(Canvas)
          /\ \A i \in DOMAIN Canvas :
                 Canvas'[i] # Canvas[i] => (open /\ i = Len(Canvas))]_vars

\* C8: after begin(p0), move(p1), ..., move(pn), end with nothing in between, the
\* points of the resulting stroke of the live canvas are p0, p1, ..., pn in that
\* order; the end event appends none.
C8_StrokePointsInOrder ==
    (lastEvent = "end" /\ pts # <<>>) =>
        (Canvas # <<>> /\ Last(Canvas).points = pts)

\* A gesture of a begin and two moves at different positions was ended.
C8_Witness == lastEvent = "end" /\ pts = <<10, 10, 20, 20, 10, 10>>

\* C9: a move event received while Idle changes neither the live canvas (rendered
\* or queued) nor the history log nor the cursor.
C9_MoveWhileIdleNoOp ==
    [][(Handled("move") /\ ~isDrawing) =>
          /\ UNCHANGED <<lines, linesBase, linesQueue, history, historyStep>>
          /\ Canvas' = Canvas]_vars

\* A move was handled while Idle, with a finalized stroke on the canvas.
C9_Witness == lastEvent = "move" /\ ~pre.isDrawing /\ ~isDrawing /\ Canvas # <<>>

\* C10: clear commits the empty canvas after the cursor (it appends one empty
\* snapshot, it does not reset the log); two clears in a row leave two empty
\* snapshots at the end of the log, and an undo right after them shows the empty
\* canvas of the first clear and keeps the log.
C10_ClearIsUndoableCommit ==
    [][/\ Handled("clear") =>
            /\ history' = SubSeq(history, 1, historyStep + 1) \o << <<>> >>
            /\ historyStep' = historyStep + 1
            /\ Canvas' = <<>>
       /\ (Handled("clear") /\ clearsInRow >= 1) =>
            /\ Len(history') = Len(SubSeq(history, 1, historyStep + 1)) + 1
            /\ Last(history') = <<>>
            /\ history'[Len(history') - 1] = <<>>
       /\ (Handled("undo") /\ clearsInRow = 2) =>
            /\ historyStep' = historyStep - 1
            /\ history' = history
            /\ history'[historyStep' + 1] = <<>>
            /\ Canvas' = <<>>]_vars

\* A drawing was committed, cleared twice, and the second clear undone.
C10_Witness ==
    /\ lastEvent = "undo"
    /\ pre.clears = 2
    /\ Len(history) = 4
    /\ history[2] # <<>>
    /\ historyStep = 2

\* The strokes of a canvas state.
Strokes(c) == {c[j] : j \in DOMAIN c}
\* Every stroke of the live canvas (rendered or queued) and of every snapshot.
AllStrokes ==
    Strokes(Canvas) \cup Strokes(lines) \cup UNION {Strokes(history[i]) : i \in DOMAIN history}

\* C11: an undo with cursor > 0 takes exactly one from the cursor, a redo with
\* cursor < snapshots.length - 1 adds exactly one; either makes the live canvas
\* the snapshot at the new cursor and leaves the snapshot sequence as it was.
C11_UndoRedoStep ==
    [][/\ (Handled("undo") /\ historyStep > 0) =>
            /\ historyStep' = historyStep - 1
            /\ history' = history
            /\ Canvas' = history[historyStep' + 1]
            /\ lines' = history[historyStep' + 1]
       /\ (Handled("redo") /\ historyStep < Len(history) - 1) =>
            /\ historyStep' = historyStep + 1
            /\ history' = history
            /\ Canvas' = history[historyStep' + 1]
            /\ lines' = history[historyStep' + 1]]_vars

\* Strokes A and B were committed and B undone: cursor 1, the canvas holds A alone.
C11_Witness ==
    /\ lastEvent = "undo"
    /\ Len(history) = 3
    /\ Len(history[2]) = 1
    /\ Len(history[3]) = 2
    /\ historyStep = 1
    /\ Canvas = history[2]

\* C12: an undo at cursor 0 changes neither the live canvas nor the history log
\* nor the cursor.
C12_UndoAtZeroNoOp ==
    [][(Handled("undo") /\ historyStep = 0) =>
          /\ UNCHANGED <<lines, linesBase, linesQueue, history, historyStep>>
          /\ Canvas' = Canvas]_vars

\* An undo was handled at cursor 0 with a stroke on the canvas and a snapshot to redo.
C12_Witness ==
    /\ lastEvent = "undo"
    /\ pre.undone = <<>>
    /\ historyStep = 0
    /\ Canvas # <<>>
    /\ canRedo

\* C13: a redo at cursor = snapshots.length - 1 changes neither the live canvas
\* nor the history log nor the cursor.
C13_RedoAtEndNoOp ==
    [][(Handled("redo") /\ historyStep = Len(history) - 1) =>
          /\ UNCHANGED <<lines, linesBase, linesQueue, history, historyStep>>
          /\ Canvas' = Canvas]_vars

\* A redo was handled on the last snapshot of a log of two, a stroke on the canvas.
C13_Witness ==
    /\ lastEvent = "redo"
    /\ ~pre.canRedo
    /\ historyStep = 1
    /\ Len(history) = 2
    /\ Canvas # <<>>

\* C16: in every reachable state the first snapshot is the empty canvas.
C16_FirstSnapshotEmpty == history[1] = <<>>

\* A drawing was committed over a redo branch, from cursor 0.
C16_Witness ==
    /\ lastEvent = "end"
    /\ pre.canRedo
    /\ historyStep = 1
    /\ history[2] # <<>>

\* C17: every stroke of the live canvas and of every snapshot has at least one
\* position, under capture and after.
C17_StrokesHavePoints == \A line \in AllStrokes : NumPoints(line) >= 1

\* A stroke of a single position is under capture, another one is in a snapshot.
C17_Witness ==
    /\ isDrawing
    /\ lastEvent = "begin"
    /\ \E line \in Strokes(Canvas) : NumPoints(line) = 1
    /\ \E i \in DOMAIN history : \E line \in Strokes(history[i]) : NumPoints(line) = 1

\* C18: begin and move events leave the history log and the cursor as they were.
C18_CaptureLeavesHistory ==
    [][(Handled("begin") \/ Handled("move")) =>
          UNCHANGED <<history, historyStep>>]_vars

\* A stroke of two positions is under capture and the log holds the first snapshot only.
C18_Witness ==
    /\ lastEvent = "move"
    /\ isDrawing
    /\ Canvas # <<>>
    /\ NumPoints(Last(Canvas)) = 2
    /\ history = << <<>> >>

\* C19: a step changes no snapshot that stays in the log: the log is left as it
\* was, or cut after the cursor and given one new snapshot; the snapshots up to
\* the cursor keep their content, and a move event changes none.
C19_SnapshotsImmutable ==
    [][/\ \/ history' = history
          \/ /\ Len(history') = historyStep + 2
             /\ SubSeq(history', 1, historyStep + 1) = SubSeq(history, 1, historyStep + 1)
       /\ Handled("move") => history' = history]_vars

\* A move was handled during a capture that follows a commit of a stroke.
C19_Witness ==
    /\ lastEvent = "move"
    /\ isDrawing
    /\ Len(history) = 2
    /\ history[2] # <<>>
    /\ Len(Canvas) = 2
    /\ NumPoints(Last(Canvas)) = 2

\* C20: whenever no stroke is in progress, the live canvas is the snapshot at the
\* cursor.
C20_IdleCanvasIsSnapshot == ~isDrawing => Canvas = history[historyStep + 1]

\* The tool, color and size of a stroke.
Style(line) == <<line.tool, line.color, line.size>>

\* C14: a selection of tool, color or size changes no stroke of the live canvas
\* or of a snapshot; a move keeps the tool, color and size of every stroke, the
\* one under capture too; a begin adds a stroke with the selection of that
\* moment and changes no other.
C14_StyleFixedAtBegin ==
    [][/\ Handled("style") =>
            /\ Canvas' = Canvas
            /\ history' = history
       /\ Handled("move") =>
            /\ history' = history
            /\ Len(Canvas') = Len(Canvas)
            /\ \A j \in DOMAIN Canvas : Style(Canvas'[j]) = Style(Canvas[j])
       /\ Handled("begin") =>
            /\ history' = history
            /\ Len(Canvas') = Len(Canvas) + 1
            /\ SubSeq(Canvas', 1, Len(Canvas)) = Canvas
            /\ Style(Last(Canvas')) = <<tool, color, currentSize>>]_vars

\* The color and the tool were changed during a capture and a move was handled:
\* the stroke under capture still has those of its begin.
C14_Witness ==
    /\ lastEvent = "move"
    /\ isDrawing
    /\ Canvas # <<>>
    /\ NumPoints(Last(Canvas)) = 2
    /\ Last(Canvas).color # color
    /\ Last(Canvas).tool # tool

\* C15: the image a copy writes to the clipboard is the surface rendered when
\* the copy was requested, whatever was handled since; export, copy and the
\* write change neither the strokes nor the history log nor the cursor.
C15_CopyIsPointInTime ==
    [][/\ (lastEvent' = "write" /\ Len(asked') = Len(asked) - 1) =>
            \E i \in DOMAIN asked :
                /\ clipboard' = <<asked[i]>>
                /\ asked' = RemoveAt(asked, i)
       /\ (Handled("copy") \/ Handled("export") \/ Len(asked') < Len(asked)) =>
            UNCHANGED <<lines, linesBase, linesQueue, history, historyStep>>
       /\ Handled("export") => download' = <<toDataURL>>]_vars

\* A copy was written after the rendered surface had changed since its request.
C15_Witness ==
    /\ lastEvent = "write"
    /\ clipboard # <<>>
    /\ clipboard[1] # <<>>
    /\ clipboard[1] # toDataURL

\* C21: while a stroke is under capture (after a begin event and before its end
\* event) the desktop toolbox is not rendered, whenever the timer callbacks
\* scheduled by earlier end events run.
C21_ToolboxHiddenWhileDrawing == isDrawing => ~showToolbox

====
